---- MODULE Spec2Model ----
(***************************************************************************)
(* The concurrent directory traversal of shitclean (src/main.go):          *)
(* readDirCached, the detector registry, walkDir with its semaphore and    *)
(* WaitGroup, the closer goroutine and the consumer loop of main.          *)
(*                                                                         *)
(* A path is the sequence of its components below the start directory;     *)
(* filepath.Join(path, name) appends a component.  The filesystem is a set *)
(* of nodes; fs is the tree as main finds it and removed holds the paths    *)
(* os.RemoveAll has taken away since.                                      *)
(***************************************************************************)
EXTENDS Bags, FiniteSets, Integers, Sequences, TLC

\* Largest semaphore capacity explored (concurrencyLimit ranges over 0..MaxPool).
MaxPool == 2
\* Largest recursion limit explored (maxRecursionDepth ranges over 1..MaxDepth).
MaxDepth == 2
\* Largest capacity of the results channel explored (0 is an unbuffered channel).
MaxCap == 1

VARIABLES
    fs,                 \* the filesystem: a set of nodes
    concurrencyLimit,   \* cap(sem)
    maxRecursionDepth,  \* the recursion limit
    resultsCap,         \* cap(results)
    dirEntriesCache,    \* sync.Map: path -> entries
    sem,                \* number of tokens held in the sem channel
    wg,                 \* the WaitGroup counter
    results,            \* buffer of the results channel
    resultsClosed,      \* close(results) has happened
    dirCount,           \* the progress counter
    gor,                \* goroutines: id -> [st, stack of walkDir frames]
    closerPc,           \* the goroutine of main.go:620-623
    mainPc,             \* main's position
    found,              \* main's slice of received records
    totalDirs,          \* main's final read of dirCount
    removed,            \* the paths os.RemoveAll has removed
    delIdx,             \* main.go:642: the index of the deletion loop
    deleted,            \* main.go:641: the count of removals without error
    outcomes,           \* history: per item offered, "no", "ok" or "err"
    osReads,            \* history: bag of paths passed to os.ReadDir
    walkReads,          \* history: bag of paths os.ReadDir was called on by walkDir's own read
    visits,             \* history: bag of paths walkDir was entered with
    detRuns,            \* history: bag of <<path, typ>> detector invocations
    counted,            \* history: bag of paths whose walkDir incremented dirCount
    emitted,            \* history: bag of [path, typ, from] records sent on results
    inlined,            \* history: set of paths whose visit ran in its caller's goroutine
    closes,             \* history: number of close(results) calls
    sendOnClosed        \* history: a send hit the closed channel (a panic in Go)

cfgVars == <<fs, concurrencyLimit, maxRecursionDepth, resultsCap>>
chanVars == <<results, resultsClosed, found>>
delVars == <<removed, delIdx, deleted, outcomes>>
histVars == <<osReads, walkReads, visits, detRuns, counted, emitted, inlined, closes,
              sendOnClosed>>
vars == <<fs, concurrencyLimit, maxRecursionDepth, resultsCap, dirEntriesCache, sem, wg,
          results, resultsClosed, dirCount, gor, closerPc, mainPc, found, totalDirs,
          removed, delIdx, deleted, outcomes,
          osReads, walkReads, visits, detRuns, counted, emitted, inlined, closes,
          sendOnClosed>>

(***************************************************************************)
(* Filesystem                                                              *)
(***************************************************************************)

\* Entry names in the byte order os.ReadDir sorts them in.
NameOrder ==
    << ".next", "Cargo.toml", "a", "b", "build", "c", "composer.json", "dist", "f",
       "node_modules", "package.json", "proj-a", "proj-b", "pyproject.toml",
       "setup.py", "target",
       "vendor" >>

skipDirs ==
    { "target", "node_modules", "CMakeFiles", "build", "bin", "obj", "dist",
      ".gradle", ".idea", ".vscode", ".dub", ".build" }

\* isDir: what DirEntry.IsDir reports; lmode: what os.Lstat reports;
\* readErr: whether os.ReadDir of the path fails.
Dir(p)     == [path |-> p, isDir |-> TRUE,  lmode |-> "dir",     readErr |-> FALSE]
File(p)    == [path |-> p, isDir |-> FALSE, lmode |-> "file",    readErr |-> TRUE]
\* a directory that may not be listed
NoPerm(p)  == [path |-> p, isDir |-> TRUE,  lmode |-> "dir",     readErr |-> TRUE]
\* a symbolic link to a directory: os.ReadDir follows it
Link(p)    == [path |-> p, isDir |-> FALSE, lmode |-> "symlink", readErr |-> FALSE]
\* listed as a directory, but os.Lstat fails on it
Gone(p)    == [path |-> p, isDir |-> TRUE,  lmode |-> "err",     readErr |-> TRUE]
\* listed as a directory, but os.Lstat reports a symbolic link
Swapped(p) == [path |-> p, isDir |-> TRUE,  lmode |-> "symlink", readErr |-> FALSE]

\* Plain sibling directories, one of them nested.
TreeWide ==
    { Dir(<<>>), Dir(<<"a">>), Dir(<<"a", "a">>), Dir(<<"b">>) }

\* A chain of projects, each deeper than the last.
TreeDeep ==
    { Dir(<<>>), File(<<"pyproject.toml">>), Dir(<<"build">>),
      Dir(<<"dist">>), File(<<"dist", "f">>),
      Dir(<<"a">>), File(<<"a", "Cargo.toml">>),
      Dir(<<"a", "target">>), File(<<"a", "target", "f">>),
      Dir(<<"a", "a">>), File(<<"a", "a", "package.json">>),
      Dir(<<"a", "a", "node_modules">>), File(<<"a", "a", "node_modules", "f">>) }

\* A project at the root whose target directory holds another project.
TreeProj ==
    { Dir(<<>>), File(<<"Cargo.toml">>), File(<<"package.json">>),
      Dir(<<"target">>), Dir(<<"target", "a">>),
      File(<<"target", "a", "Cargo.toml">>), Dir(<<"target", "a", "target">>),
      File(<<"target", "a", "target", "f">>),
      Dir(<<"node_modules">>),
      Dir(<<".next">>), File(<<".next", "f">>) }

\* Unreadable and unstattable children and symbolic links.
TreeErr ==
    { Dir(<<>>), File(<<"composer.json">>), NoPerm(<<"vendor">>),
      Link(<<"a">>), Dir(<<"a", "a">>),
      Gone(<<"b">>),
      Swapped(<<"c">>), Dir(<<"c", "a">>) }

\* Two projects side by side: one built, one with an empty artifact directory.
TreeTwoProj ==
    { Dir(<<>>),
      Dir(<<"proj-a">>), File(<<"proj-a", "Cargo.toml">>),
      Dir(<<"proj-a", "target">>), File(<<"proj-a", "target", "f">>),
      Dir(<<"proj-b">>), File(<<"proj-b", "package.json">>),
      Dir(<<"proj-b", "node_modules">>) }

\* One manifest that two detectors look for, both artifact directories filled.
TreeNext ==
    { Dir(<<>>), File(<<"package.json">>),
      Dir(<<"node_modules">>), File(<<"node_modules", "f">>),
      Dir(<<".next">>), File(<<".next", "f">>) }

\* A start directory that may not be listed.
TreeDenied == { NoPerm(<<>>) }

Kinds == { "dir", "noperm", "link", "gone", "swapped" }

Mk(kind, p) ==
    CASE kind = "dir"     -> Dir(p)
      [] kind = "noperm"  -> NoPerm(p)
      [] kind = "link"    -> Link(p)
      [] kind = "gone"    -> Gone(p)
      [] kind = "swapped" -> Swapped(p)

\* A vendor directory and a project directory of every kind.
TreeMixed(k1, k2) ==
    { Dir(<<>>), File(<<"composer.json">>),
      Mk(k1, <<"vendor">>), File(<<"vendor", "f">>), Dir(<<"vendor", "a">>),
      Mk(k2, <<"b">>), File(<<"b", "Cargo.toml">>),
      Dir(<<"b", "target">>), File(<<"b", "target", "f">>) }

Trees ==
    { TreeWide, TreeDeep, TreeProj, TreeErr, TreeTwoProj, TreeNext, TreeDenied }
        \cup { TreeMixed(k, "dir") : k \in Kinds }
        \cup { TreeMixed("dir", k) : k \in Kinds }

Join(path, name) == Append(path, name)

Exists(fsys, p) == \E n \in fsys : n.path = p
Node(fsys, p) == CHOOSE n \in fsys : n.path = p

ChildNames(fsys, p) ==
    { n.path[Len(p) + 1] : n \in { m \in fsys : /\ Len(m.path) = Len(p) + 1
                                                /\ SubSeq(m.path, 1, Len(p)) = p } }

RECURSIVE EntriesFrom(_, _, _, _)
EntriesFrom(fsys, p, names, k) ==
    IF k > Len(NameOrder) THEN <<>>
    ELSE IF NameOrder[k] \in names
         THEN << [name |-> NameOrder[k], isDir |-> Node(fsys, Join(p, NameOrder[k])).isDir] >>
              \o EntriesFrom(fsys, p, names, k + 1)
         ELSE EntriesFrom(fsys, p, names, k + 1)

\* os.ReadDir: the entries sorted by name, or an error.
ReadDir(fsys, p) ==
    IF ~Exists(fsys, p) \/ Node(fsys, p).readErr
    THEN [err |-> TRUE, entries |-> <<>>]
    ELSE [err |-> FALSE, entries |-> EntriesFrom(fsys, p, ChildNames(fsys, p), 1)]

\* os.Lstat followed by the ModeSymlink test.
Lstat(fsys, p) == IF Exists(fsys, p) THEN Node(fsys, p).lmode ELSE "err"

\* os.RemoveAll(p): p and everything below it is gone from fsys.
Without(fsys, gone) ==
    { n \in fsys : \A k \in 0..Len(n.path) : SubSeq(n.path, 1, k) \notin gone }

(***************************************************************************)
(* Detector registry                                                       *)
(***************************************************************************)

detectors == { "cargo", "node", "next", "composer", "python" }

\* The manifests a detector looks up in nameMap; one of them is enough.
Manifests(typ) ==
    CASE typ = "cargo"    -> { "Cargo.toml" }
      [] typ = "node"     -> { "package.json" }
      [] typ = "next"     -> { "package.json" }
      [] typ = "composer" -> { "composer.json" }
      [] typ = "python"   -> { "setup.py", "pyproject.toml" }

\* The directories a detector tests with nonEmptyDir, in order.
Candidates(typ) ==
    CASE typ = "cargo"    -> << "target" >>
      [] typ = "node"     -> << "node_modules" >>
      [] typ = "next"     -> << ".next" >>
      [] typ = "composer" -> << "vendor" >>
      [] typ = "python"   -> << "build", "dist" >>

hasName(entries, name) == \E k \in 1..Len(entries) : entries[k].name = name

(***************************************************************************)
(* walkDir frames                                                          *)
(***************************************************************************)

\* Largest number of concurrent callers of readDirCached in CacheSpec.
MaxCallers == 3
\* Largest number of readDirCached calls one caller makes in CacheSpec.
MaxCalls == 2

\* Goroutine 0 runs the walkDir started by main; the others are spawned.
GoIds == 0..(IF MaxCallers > MaxPool + 1 THEN MaxCallers ELSE MaxPool + 1)

\* One activation of walkDir (or, in CacheSpec, one caller of readDirCached).
\* rpc, rpath, rent: the position, argument and local result of the
\* readDirCached call in progress.
Frame(p, d) ==
    [path |-> p, depth |-> d, pc |-> "enter", entries |-> <<>>, err |-> FALSE,
     todo |-> {}, det |-> "", cand |-> 0, target |-> <<>>, i |-> 0,
     rpc |-> "none", rpath |-> <<>>, rent |-> <<>>]

Idle == [st |-> "unused", stack |-> <<>>]

Top(g) == gor[g].stack[Len(gor[g].stack)]
Running(g) == gor[g].st = "running" /\ gor[g].stack # <<>>
SetTop(g, f) == [gor EXCEPT ![g].stack[Len(gor[g].stack)] = f]

\* SkipChild without the skipDirs lookup of main.go:531.
SkipChildIgnoresSkipSet(fsys, path, e) ==
    \/ ~e.isDir
    \/ Lstat(fsys, Join(path, e.name)) = "err"
    \/ Lstat(fsys, Join(path, e.name)) = "symlink"

\* SkipChild without the ModeSymlink test of main.go:541.
SkipChildFollowsLinks(fsys, path, e) ==
    \/ ~e.isDir
    \/ e.name \in skipDirs
    \/ Lstat(fsys, Join(path, e.name)) = "err"

\* main.go:527-543: the child entries walkDir passes over.
SkipChild(fsys, path, e) ==
    \/ ~e.isDir
    \/ e.name \in skipDirs
    \/ Lstat(fsys, Join(path, e.name)) = "err"
    \/ Lstat(fsys, Join(path, e.name)) = "symlink"

RECURSIVE NextChild(_, _, _)
NextChild(fsys, f, j) ==
    IF j > Len(f.entries) THEN j
    ELSE IF SkipChild(fsys, f.path, f.entries[j]) THEN NextChild(fsys, f, j + 1)
    ELSE j

\* The child loop positioned at the next entry that is not passed over, or
\* past its end (main.go:560).
AtChild(fsys, f, j) ==
    LET k == NextChild(fsys, f, j) IN
    IF k > Len(f.entries) THEN [f EXCEPT !.pc = "count", !.i = k]
    ELSE [f EXCEPT !.pc = "children", !.i = k]

\* NextDet going to the child loop with detectors still to run.
NextDetLeavesEarly(fsys, f) ==
    AtChild(fsys, [f EXCEPT !.det = "", !.cand = 0, !.target = <<>>], 1)

\* The detector loop: on to the next detector, or to the child loop.
NextDet(fsys, f) ==
    LET c == [f EXCEPT !.det = "", !.cand = 0, !.target = <<>>] IN
    IF c.todo = {} THEN AtChild(fsys, c, 1) ELSE [c EXCEPT !.pc = "detect"]

\* Entering readDirCached(p).
Call(f, p) == [f EXCEPT !.rpc = "load", !.rpath = p, !.rent = <<>>]

\* nonEmptyDir without the length test of main.go:113.
nonEmptyDirAnyListing(r) == ~r.err

\* main.go:108-114
nonEmptyDir(r) == ~r.err /\ Len(r.entries) > 0

\* The detectors that go on to test a candidate directory: those whose
\* manifest is in nameMap.  The others return false at their first line.
Matching(entries) ==
    { typ \in detectors : \E m \in Manifests(typ) : hasName(entries, m) }

\* Return with walkDir taking a failed listing for an empty one.
ReturnIgnoresError(fsys, f0, r) ==
    LET f == [f0 EXCEPT !.rpc = "none", !.rpath = <<>>, !.rent = <<>>] IN
    CASE f.pc = "walk.read" ->
            NextDet(fsys, [f EXCEPT !.entries = r.entries,
                                    !.todo = Matching(r.entries)])
      [] f.pc = "det.read" ->
            IF nonEmptyDir(r) THEN [f EXCEPT !.pc = "emit", !.target = f0.rpath]
            ELSE IF f.cand < Len(Candidates(f.det))
                 THEN Call([f EXCEPT !.cand = f.cand + 1],
                           Join(f.path, Candidates(f.det)[f.cand + 1]))
                 ELSE NextDet(fsys, [f EXCEPT !.todo = f.todo \ {f.det}])
      [] f.pc = "test.call" ->
            [f EXCEPT !.pc = "test.ret", !.entries = r.entries, !.err = r.err]

\* What the caller does with the result r of readDirCached.
Return(fsys, f0, r) ==
    LET f == [f0 EXCEPT !.rpc = "none", !.rpath = <<>>, !.rent = <<>>] IN
    CASE f.pc = "walk.read" ->
            IF r.err THEN [f EXCEPT !.pc = "done"]
            ELSE NextDet(fsys, [f EXCEPT !.entries = r.entries,
                                         !.todo = Matching(r.entries)])
      [] f.pc = "det.read" ->
            IF nonEmptyDir(r) THEN [f EXCEPT !.pc = "emit", !.target = f0.rpath]
            ELSE IF f.cand < Len(Candidates(f.det))
                 THEN Call([f EXCEPT !.cand = f.cand + 1],
                           Join(f.path, Candidates(f.det)[f.cand + 1]))
                 ELSE NextDet(fsys, [f EXCEPT !.todo = f.todo \ {f.det}])
      [] f.pc = "test.call" ->
            [f EXCEPT !.pc = "test.ret", !.entries = r.entries, !.err = r.err]

\* The detector invocations that ran to completion inside a step from f to n.
Ran(f, n) ==
    IF f.pc = "walk.read" /\ n.pc \in {"detect", "children", "count"}
    THEN SetToBag({ <<f.path, typ>> : typ \in detectors \ n.todo })
    ELSE EmptyBag

\* The filesystem as the system calls find it.
Live == Without(fs, removed)

Store(cache, p, e) ==
    [q \in DOMAIN cache \cup {p} |-> IF q = p THEN e ELSE cache[q]]

(***************************************************************************)
(* readDirCached (main.go:42-52), one step per access to shared state      *)
(***************************************************************************)

\* main.go:43-45
RdcLoad(g) ==
    /\ Running(g) /\ Top(g).rpc = "load"
    /\ LET f == Top(g)
           n == IF f.rpath \in DOMAIN dirEntriesCache
                THEN Return(Live, f, [err |-> FALSE, entries |-> dirEntriesCache[f.rpath]])
                ELSE [f EXCEPT !.rpc = "read"]
       IN /\ gor' = SetTop(g, n)
          /\ detRuns' = detRuns (+) Ran(f, n)
    /\ UNCHANGED <<cfgVars, delVars, chanVars, dirEntriesCache, sem, wg, dirCount, closerPc,
                   mainPc, totalDirs, osReads, walkReads, visits, counted, emitted,
                   inlined, closes, sendOnClosed>>

\* main.go:46-49
RdcRead(g) ==
    /\ Running(g) /\ Top(g).rpc = "read"
    /\ LET f == Top(g)
           r == ReadDir(Live, f.rpath)
       IN /\ gor' = SetTop(g, IF r.err THEN Return(Live, f, r)
                              ELSE [f EXCEPT !.rpc = "store", !.rent = r.entries])
          /\ osReads' = osReads (+) SetToBag({f.rpath})
          /\ walkReads' = IF f.pc = "walk.read" THEN walkReads (+) SetToBag({f.rpath})
                          ELSE walkReads
    /\ UNCHANGED <<cfgVars, delVars, chanVars, dirEntriesCache, sem, wg, dirCount, closerPc,
                   mainPc, totalDirs, visits, detRuns, counted, emitted, inlined, closes,
                   sendOnClosed>>

\* main.go:50-51
RdcStore(g) ==
    /\ Running(g) /\ Top(g).rpc = "store"
    /\ LET f == Top(g)
           n == Return(Live, f, [err |-> FALSE, entries |-> f.rent])
       IN /\ dirEntriesCache' = Store(dirEntriesCache, f.rpath, f.rent)
          /\ gor' = SetTop(g, n)
          /\ detRuns' = detRuns (+) Ran(f, n)
    /\ UNCHANGED <<cfgVars, delVars, chanVars, sem, wg, dirCount, closerPc, mainPc, totalDirs,
                   osReads, walkReads, visits, counted, emitted, inlined, closes,
                   sendOnClosed>>

(***************************************************************************)
(* walkDir (main.go:500-561)                                               *)
(***************************************************************************)

\* Entered with > for >= in the depth test.
EnteredOffByOne(f, limit) ==
    IF f.depth > limit THEN [f EXCEPT !.pc = "done"]
    ELSE Call([f EXCEPT !.pc = "walk.read"], f.path)

\* main.go:503-507: the depth test, then the call of readDirCached(path).
\* Entered with a call cut off at the limit counting its directory.
EnteredCountsCutOff(f, limit) ==
    IF f.depth >= limit THEN [f EXCEPT !.pc = "count"]
    ELSE Call([f EXCEPT !.pc = "walk.read"], f.path)

Entered(f, limit) ==
    IF f.depth >= limit THEN [f EXCEPT !.pc = "done"]
    ELSE Call([f EXCEPT !.pc = "walk.read"], f.path)

WalkEnter(g) ==
    /\ Running(g) /\ Top(g).pc = "enter"
    /\ gor' = SetTop(g, Entered(Top(g), maxRecursionDepth))
    /\ visits' = visits (+) SetToBag({Top(g).path})
    /\ UNCHANGED <<cfgVars, delVars, chanVars, dirEntriesCache, sem, wg, dirCount, closerPc,
                   mainPc, totalDirs, osReads, walkReads, detRuns, counted, emitted,
                   inlined, closes, sendOnClosed>>

\* main.go:519-520: the map iteration yields a detector not yet run; it finds
\* its manifest and calls nonEmptyDir on its first candidate.
DetectorRun(g, typ) ==
    /\ Running(g) /\ Top(g).pc = "detect" /\ typ \in Top(g).todo
    /\ LET f == Top(g) IN
       /\ gor' = SetTop(g, Call([f EXCEPT !.pc = "det.read", !.det = typ, !.cand = 1],
                                Join(f.path, Candidates(typ)[1])))
       /\ detRuns' = detRuns (+) SetToBag({<<f.path, typ>>})
    /\ UNCHANGED <<cfgVars, delVars, chanVars, dirEntriesCache, sem, wg, dirCount, closerPc,
                   mainPc, totalDirs, osReads, walkReads, visits, counted, emitted,
                   inlined, closes, sendOnClosed>>

\* Sent with the detector left in the set still to run.
SentKeepsDetector(fsys, f) == NextDet(fsys, f)

\* Sent with the detector loop left at the first match.
SentStopsAtFirst(fsys, f) == NextDet(fsys, [f EXCEPT !.todo = {}])

\* The frame after the send of main.go:521.
Sent(fsys, f) == NextDet(fsys, [f EXCEPT !.todo = f.todo \ {f.det}])

\* main.go:521: results <- foundDir{path: dirPath, typ: typ}.  The send waits
\* for room in the buffer or, on an unbuffered channel, for the receiver.
Emit(g) ==
    /\ Running(g) /\ Top(g).pc = "emit"
    /\ \/ resultsClosed
       \/ Len(results) < resultsCap
       \/ resultsCap = 0 /\ mainPc = "range"
    /\ LET f == Top(g)
           rec == [path |-> f.target, typ |-> f.det]
       IN IF resultsClosed
          THEN /\ sendOnClosed' = TRUE
               /\ UNCHANGED <<gor, results, found, emitted>>
          ELSE /\ gor' = SetTop(g, Sent(Live, f))
               /\ emitted' = emitted (+) SetToBag({[path |-> f.target, typ |-> f.det,
                                                    from |-> f.path]})
               /\ IF Len(results) < resultsCap
                  THEN results' = Append(results, rec) /\ found' = found
                  ELSE found' = Append(found, rec) /\ results' = results
               /\ UNCHANGED sendOnClosed
    /\ UNCHANGED <<cfgVars, delVars, resultsClosed, dirEntriesCache, sem, wg, dirCount, closerPc,
                   mainPc, totalDirs, osReads, walkReads, visits, detRuns, counted,
                   inlined, closes>>

\* WgAdd without the increment of the counter.
WgAddMissing(g) ==
    /\ Running(g) /\ Top(g).pc = "children"
    /\ gor' = SetTop(g, [Top(g) EXCEPT !.pc = "select"])
    /\ UNCHANGED <<cfgVars, delVars, chanVars, dirEntriesCache, sem, wg, dirCount, closerPc,
                   mainPc, totalDirs, histVars>>

\* main.go:545
WgAdd(g) ==
    /\ Running(g) /\ Top(g).pc = "children"
    /\ wg' = wg + 1
    /\ gor' = SetTop(g, [Top(g) EXCEPT !.pc = "select"])
    /\ UNCHANGED <<cfgVars, delVars, chanVars, dirEntriesCache, sem, dirCount, closerPc, mainPc,
                   totalDirs, histVars>>

\* SemTrySend admitting one token more than the capacity.
SemTrySendOffByOne == sem <= concurrencyLimit

\* main.go:548: whether the send on sem can proceed at once.  With capacity 0
\* a send needs a receiver blocked at main.go:552; only spawned goroutines
\* receive, and none is spawned before a send has succeeded.
SemTrySend == sem < concurrencyLimit

FreeIds == { h \in GoIds \ {0} : gor[h].st = "unused" }
ChildPath(f) == Join(f.path, f.entries[f.i].name)

\* main.go:548-553: the slot is taken and the visit runs in a new goroutine.
Spawn(g) ==
    /\ Running(g) /\ Top(g).pc = "select"
    /\ SemTrySend
    /\ FreeIds # {}
    /\ LET f == Top(g)
           h == CHOOSE x \in FreeIds : \A y \in FreeIds : x <= y
       IN gor' = [gor EXCEPT ![g].stack[Len(gor[g].stack)] = AtChild(Live, f, f.i + 1),
                             ![h] = [st |-> "running",
                                     stack |-> << Frame(ChildPath(f), f.depth + 1) >>]]
    /\ sem' = sem + 1
    /\ UNCHANGED <<cfgVars, delVars, chanVars, dirEntriesCache, wg, dirCount, closerPc, mainPc,
                   totalDirs, histVars>>

\* Pushed without the child: the visit is dropped when no slot is free.
PushedNothing(fsys, stack) ==
    LET f == stack[Len(stack)] IN
    [stack EXCEPT ![Len(stack)] = AtChild(fsys, f, f.i + 1)]

\* The stack of the caller once the visit of its child runs on top of it.
Pushed(fsys, stack) ==
    LET f == stack[Len(stack)] IN
    Append([stack EXCEPT ![Len(stack)] = AtChild(fsys, f, f.i + 1)],
           Frame(ChildPath(f), f.depth + 1))

\* Inline never taken: the caller waits at the select for a free slot.
WaitForSlot(g) ==
    /\ Running(g) /\ Top(g).pc = "select"
    /\ FALSE
    /\ UNCHANGED vars

\* main.go:554-556: no slot is free and the visit runs in this goroutine.
Inline(g) ==
    /\ Running(g) /\ Top(g).pc = "select"
    /\ ~SemTrySend
    /\ gor' = [gor EXCEPT ![g].stack = Pushed(Live, gor[g].stack)]
    /\ inlined' = inlined \cup {ChildPath(Top(g))}
    /\ UNCHANGED <<cfgVars, delVars, chanVars, dirEntriesCache, sem, wg, dirCount, closerPc,
                   mainPc, totalDirs, osReads, walkReads, visits, detRuns, counted,
                   emitted, closes, sendOnClosed>>

\* main.go:560
Count(g) ==
    /\ Running(g) /\ Top(g).pc = "count"
    /\ dirCount' = dirCount + 1
    /\ counted' = counted (+) SetToBag({Top(g).path})
    /\ gor' = SetTop(g, [Top(g) EXCEPT !.pc = "done"])
    /\ UNCHANGED <<cfgVars, delVars, chanVars, dirEntriesCache, sem, wg, closerPc, mainPc,
                   totalDirs, osReads, walkReads, visits, detRuns, emitted, inlined,
                   closes, sendOnClosed>>

\* Popped with the spawned goroutine ending without its receive from sem.
PoppedWithoutRelease(g, gr) ==
    LET rest == SubSeq(gr.stack, 1, Len(gr.stack) - 1) IN
    IF rest # <<>> THEN [gr EXCEPT !.stack = rest]
    ELSE IF g = 0 THEN [st |-> "exited", stack |-> <<>>]
    ELSE Idle

\* The goroutine after its top walkDir call has returned.
Popped(g, gr) ==
    LET rest == SubSeq(gr.stack, 1, Len(gr.stack) - 1) IN
    IF rest # <<>> THEN [gr EXCEPT !.stack = rest]
    ELSE IF g = 0 THEN [st |-> "exited", stack |-> <<>>]
    ELSE [st |-> "release", stack |-> <<>>]

\* main.go:501: the deferred wg.Done(), run on every return of walkDir.
WalkReturn(g) ==
    /\ Running(g) /\ Top(g).pc = "done"
    /\ wg' = wg - 1
    /\ gor' = [gor EXCEPT ![g] = Popped(g, gor[g])]
    /\ UNCHANGED <<cfgVars, delVars, chanVars, dirEntriesCache, sem, dirCount, closerPc, mainPc,
                   totalDirs, histVars>>

\* main.go:552: <-sem, after which the goroutine ends.
Release(g) ==
    /\ gor[g].st = "release"
    /\ sem > 0
    /\ sem' = sem - 1
    /\ gor' = [gor EXCEPT ![g] = Idle]
    /\ UNCHANGED <<cfgVars, delVars, chanVars, dirEntriesCache, wg, dirCount, closerPc, mainPc,
                   totalDirs, histVars>>

(***************************************************************************)
(* main (main.go:606-656)                                                  *)
(***************************************************************************)

\* WaitDone that does not wait.
WaitSkipped == TRUE

\* What wg.Wait() waits for.
WaitDone == wg = 0

\* main.go:621: wg.Wait() returns once the counter is zero.
CloserWait ==
    /\ closerPc = "wait"
    /\ WaitDone
    /\ closerPc' = "close"
    /\ UNCHANGED <<cfgVars, delVars, chanVars, dirEntriesCache, sem, wg, dirCount, gor, mainPc,
                   totalDirs, histVars>>

\* main.go:622
CloserClose ==
    /\ closerPc = "close"
    /\ closerPc' = "done"
    /\ resultsClosed' = TRUE
    /\ closes' = closes + 1
    /\ UNCHANGED <<cfgVars, delVars, results, found, dirEntriesCache, sem, wg, dirCount, gor,
                   mainPc, totalDirs, osReads, walkReads, visits, detRuns, counted,
                   emitted, inlined, sendOnClosed>>

\* main.go:626-629: one iteration of the range loop.
Recv ==
    /\ mainPc = "range"
    /\ results # <<>>
    /\ found' = Append(found, Head(results))
    /\ results' = Tail(results)
    /\ UNCHANGED <<cfgVars, delVars, resultsClosed, dirEntriesCache, sem, wg, dirCount, gor,
                   closerPc, mainPc, totalDirs, histVars>>

\* A loop that stops as soon as nothing is waiting in the channel.
RangeDoneOnEmpty == results = <<>>

\* main.go:626: range over a channel ends when it is closed and drained.
RangeDone == results = <<>> /\ resultsClosed

\* main.go:626: the range loop ends on the closed, drained channel.
RangeExit ==
    /\ mainPc = "range"
    /\ RangeDone
    /\ mainPc' = "report"
    /\ UNCHANGED <<cfgVars, delVars, chanVars, dirEntriesCache, sem, wg, dirCount, gor, closerPc,
                   totalDirs, histVars>>

\* main.go:631-639: the counter is read; with nothing found main returns.
Report ==
    /\ mainPc = "report"
    /\ totalDirs' = dirCount
    /\ mainPc' = IF Len(found) = 0 THEN "exit" ELSE "delete"
    /\ UNCHANGED <<cfgVars, delVars, chanVars, dirEntriesCache, sem, wg, dirCount, gor, closerPc,
                   histVars>>

\* What confirm and os.RemoveAll can answer for one item (main.go:643-648):
\* "no" is a declined prompt, "ok" a removal without error, "err" a failed one.
Outcomes == { "no", "ok", "err" }

\* A loop that gives up at the first failed removal.
NextItemAbortsOnError(i, n, o) == IF o = "err" THEN n + 1 ELSE i + 1

\* main.go:642-650: whatever the outcome, the loop goes on to the next item.
NextItem(i, n, o) == i + 1

\* main.go:642-650: one iteration of the deletion loop. A failed os.RemoveAll
\* is taken to leave the directory in place.
DeleteItem(o) ==
    /\ mainPc = "delete"
    /\ delIdx <= Len(found)
    /\ removed' = IF o = "ok" THEN removed \cup { found[delIdx].path } ELSE removed
    /\ deleted' = IF o = "ok" THEN deleted + 1 ELSE deleted
    /\ outcomes' = Append(outcomes, [rec |-> found[delIdx], out |-> o])
    /\ delIdx' = NextItem(delIdx, Len(found), o)
    /\ UNCHANGED <<cfgVars, chanVars, dirEntriesCache, sem, wg, dirCount, gor, closerPc,
                   mainPc, totalDirs, histVars>>

\* main.go:652-656: the loop is over, the summary is printed and main returns.
DeleteEnd ==
    /\ mainPc = "delete"
    /\ delIdx > Len(found)
    /\ mainPc' = "exit"
    /\ UNCHANGED <<cfgVars, delVars, chanVars, dirEntriesCache, sem, wg, dirCount, gor,
                   closerPc, totalDirs, histVars>>

(***************************************************************************)
(* The traversal                                                           *)
(***************************************************************************)

NoHistory ==
    /\ osReads = EmptyBag /\ walkReads = EmptyBag /\ visits = EmptyBag
    /\ detRuns = EmptyBag /\ counted = EmptyBag /\ emitted = EmptyBag
    /\ inlined = {} /\ closes = 0 /\ sendOnClosed = FALSE

\* The state at main.go:625: the root walkDir and the closer have been started.
Init ==
    /\ fs \in Trees
    /\ concurrencyLimit \in 0..MaxPool
    /\ maxRecursionDepth \in 1..MaxDepth
    /\ resultsCap \in 0..MaxCap
    /\ dirEntriesCache = [p \in {} |-> <<>>]
    /\ sem = 0
    /\ wg = 1
    /\ results = <<>> /\ resultsClosed = FALSE /\ found = <<>>
    /\ dirCount = 0 /\ totalDirs = 0
    /\ gor = [g \in GoIds |-> IF g = 0
                               THEN [st |-> "running", stack |-> << Frame(<<>>, 0) >>]
                               ELSE Idle]
    /\ closerPc = "wait"
    /\ mainPc = "range"
    /\ removed = {} /\ delIdx = 1 /\ deleted = 0 /\ outcomes = <<>>
    /\ NoHistory

Next ==
    \/ \E g \in GoIds :
          \/ WalkEnter(g)
          \/ RdcLoad(g)
          \/ RdcRead(g)
          \/ RdcStore(g)
          \/ \E typ \in detectors : DetectorRun(g, typ)
          \/ Emit(g)
          \/ WgAdd(g)
          \/ Spawn(g)
          \/ Inline(g)
          \/ Count(g)
          \/ WalkReturn(g)
          \/ Release(g)
    \/ CloserWait
    \/ CloserClose
    \/ Recv
    \/ RangeExit
    \/ Report
    \/ \E o \in Outcomes : DeleteItem(o)
    \/ DeleteEnd

Spec == Init /\ [][Next]_vars

\* Every goroutine that can take a step eventually runs.
FairSpec == Spec /\ WF_vars(Next)

(***************************************************************************)
(* readDirCached under concurrent callers                                  *)
(***************************************************************************)

\* The paths the callers pass: a directory that lists and one that does not.
TestPaths == { <<>>, <<"vendor">> }

Caller(p) == Call([Frame(p, 0) EXCEPT !.pc = "test.call", !.i = 1], p)

\* Between 2 and MaxCallers goroutines are about to call readDirCached with
\* the same path; nothing is cached.
CacheInit ==
    /\ fs = TreeErr
    /\ concurrencyLimit = 0 /\ maxRecursionDepth = 1 /\ resultsCap = 0
    /\ dirEntriesCache = [p \in {} |-> <<>>]
    /\ sem = 0 /\ wg = 0
    /\ results = <<>> /\ resultsClosed = FALSE /\ found = <<>>
    /\ dirCount = 0 /\ totalDirs = 0
    /\ \E n \in 2..MaxCallers : \E p \in TestPaths :
          gor = [g \in GoIds |-> IF g \in 1..n
                                 THEN [st |-> "running", stack |-> << Caller(p) >>]
                                 ELSE Idle]
    /\ closerPc = "done"
    /\ mainPc = "test"
    /\ removed = {} /\ delIdx = 1 /\ deleted = 0 /\ outcomes = <<>>
    /\ NoHistory

\* A caller whose call has returned calls readDirCached again.
TestCall(g, p) ==
    /\ Running(g) /\ Top(g).pc = "test.ret"
    /\ Top(g).i < MaxCalls
    /\ gor' = SetTop(g, Call([Top(g) EXCEPT !.pc = "test.call", !.path = p,
                                            !.i = Top(g).i + 1, !.entries = <<>>,
                                            !.err = FALSE], p))
    /\ UNCHANGED <<cfgVars, delVars, chanVars, dirEntriesCache, sem, wg, dirCount, closerPc,
                   mainPc, totalDirs, histVars>>

CacheNext ==
    \E g \in GoIds :
        \/ RdcLoad(g)
        \/ RdcRead(g)
        \/ RdcStore(g)
        \/ \E p \in TestPaths : TestCall(g, p)

CacheSpec == CacheInit /\ [][CacheNext]_vars

(***************************************************************************)
(* Properties                                                              *)
(***************************************************************************)

Parent(p) == SubSeq(p, 1, Len(p) - 1)

\* The goroutines whose walkDir call has started and not returned.
Started(g) == gor[g].stack # <<>> /\ gor[g].stack[1].pc # "enter"
ActiveUnits == { g \in GoIds : Started(g) }

\* No walkDir call is running or waiting to run.
Quiescent == \A g \in GoIds : gor[g].stack = <<>>

Frames == UNION { { gor[g].stack[k] : k \in 1..Len(gor[g].stack) } : g \in GoIds }

Range(q) == { q[k] : k \in 1..Len(q) }
Occurrences(q, x) == Cardinality({ k \in 1..Len(q) : q[k] = x })

\* The record main receives for an emission.
RecOf(e) == [path |-> e.path, typ |-> e.typ]

RECURSIVE Copies(_)
Copies(S) ==
    IF S = {} THEN 0
    ELSE LET e == CHOOSE x \in S : TRUE IN CopiesIn(e, emitted) + Copies(S \ {e})

\* How many times record r has been sent on results.
EmittedCount(r) == Copies({ e \in BagToSet(emitted) : RecOf(e) = r })

\* C1 as stated: the goroutines running a visit never outnumber the pool.
C1_ActiveWithinPool == Cardinality(ActiveUnits) <= concurrencyLimit

\* C1 amended: at most concurrencyLimit visits run in spawned goroutines, and
\* with the root visit, which main starts without a slot, at most
\* concurrencyLimit + 1 goroutines run visits at once.
C1_ActiveWithinPoolPlusRoot ==
    /\ Cardinality(ActiveUnits \ {0}) <= concurrencyLimit
    /\ Cardinality(ActiveUnits) <= concurrencyLimit + 1

\* C1 witness: a pool of at least one slot, all taken, with the root visit running.
C1_PoolFullAndRootRunning ==
    /\ concurrencyLimit >= 1
    /\ Cardinality(ActiveUnits) = concurrencyLimit + 1

\* C2: under fair scheduling every walkDir call returns, results is closed
\* and main's range loop exits, whatever the tree, pool size and capacity.
C2_Terminates == <>(Quiescent /\ wg = 0 /\ resultsClosed /\ mainPc # "range")

\* C2 witness: a traversal with no pool, an unbuffered results channel, a
\* failed listing and a visit cut off by the depth limit has finished.
C2_FinishedDespiteErrors ==
    /\ Quiescent /\ resultsClosed /\ mainPc = "exit"
    /\ concurrencyLimit = 0 /\ resultsCap = 0
    /\ \E p \in BagToSet(walkReads) : ReadDir(fs, p).err
    /\ \E p \in BagToSet(visits) : Len(p) >= maxRecursionDepth

\* C3 as stated: a path whose listing succeeds is listed by os.ReadDir once,
\* however many callers of readDirCached there are.
C3_ListedOnce ==
    \A p \in BagToSet(osReads) : ~ReadDir(fs, p).err => CopiesIn(p, osReads) = 1

\* C4 as stated: a path whose listing failed is not listed again.
C4_FailureNotRetried ==
    \A p \in BagToSet(osReads) : ReadDir(fs, p).err => CopiesIn(p, osReads) = 1

\* A directory that lists, below the depth limit, reached from the root
\* through directories that list, are not symbolic links and are not in skipDirs.
Claimed(p) ==
    /\ \A k \in 1..Len(p) :
          LET q == SubSeq(p, 1, k) IN
          /\ Exists(fs, q) /\ Node(fs, q).isDir /\ Node(fs, q).lmode = "dir"
          /\ q[k] \notin skipDirs
          /\ ~ReadDir(fs, Parent(q)).err
    /\ ~ReadDir(fs, p).err
    /\ Len(p) < maxRecursionDepth

\* C5: no directory is visited twice, and once no walkDir call is left every
\* claimed directory has been visited exactly once, whether inline or spawned.
C5_VisitedExactlyOnce ==
    /\ \A p \in BagToSet(visits) : CopiesIn(p, visits) = 1
    /\ Quiescent => \A n \in fs : Claimed(n.path) => CopiesIn(n.path, visits) = 1

\* C5 witness: the traversal is over, one claimed directory was visited
\* inline and another in a spawned goroutine.
C5_InlineAndSpawnedVisits ==
    /\ Quiescent
    /\ \E n \in fs, m \in fs :
          /\ Claimed(n.path) /\ n.path \in inlined
          /\ Claimed(m.path) /\ m.path # <<>> /\ m.path \notin inlined
          /\ CopiesIn(m.path, visits) = 1

\* C6: results is closed once, after every walkDir call has returned; no
\* send hits the closed channel; every record sent is in the buffer or has
\* been received, exactly once, and the buffer is empty when the loop ends.
C6_StreamDelivery ==
    /\ closes <= 1 /\ (resultsClosed <=> closes = 1)
    /\ resultsClosed => Quiescent
    /\ ~sendOnClosed
    /\ Len(results) <= resultsCap
    /\ \A r \in { RecOf(e) : e \in BagToSet(emitted) } \cup Range(found) \cup Range(results) :
          EmittedCount(r) = Occurrences(found, r) + Occurrences(results, r)
    /\ mainPc # "range" => resultsClosed /\ results = <<>>

\* C6 witness: main has left the loop on the closed channel with two
\* records received.
C6_AllReceived == mainPc = "exit" /\ Len(found) >= 2 /\ closes = 1

\* C7: no (path, typ) pair is sent twice; no detector runs twice on a
\* directory; no directory is visited twice.
C7_NoDuplicateRecords ==
    /\ \A e \in BagToSet(emitted) : EmittedCount(RecOf(e)) = 1
    /\ \A d \in BagToSet(detRuns) : CopiesIn(d, detRuns) = 1
    /\ \A p \in BagToSet(visits) : CopiesIn(p, visits) = 1

\* C7 witness: two detectors have each reported for the same directory.
C7_TwoRecordsFromOneDirectory ==
    \E e1 \in BagToSet(emitted), e2 \in BagToSet(emitted) :
        e1.from = e2.from /\ e1.typ # e2.typ

InSkip(p) == \E k \in 1..Len(p) : p[k] \in skipDirs

\* C8 as stated: no directory named in skipDirs is listed, and no record
\* comes from a detector run on such a directory or below it.
C8_SkipDirNeverRead ==
    /\ \A p \in BagToSet(osReads) : Len(p) > 0 => p[Len(p)] \notin skipDirs
    /\ \A e \in BagToSet(emitted) : ~InSkip(e.from)

\* C8 amended: walkDir is never called on a directory named in skipDirs or
\* below one, so it lists none and no detector runs there; such a directory
\* is listed only by the nonEmptyDir of a detector run on its parent.
C8_SkipDirNeverWalked ==
    /\ \A f \in Frames : ~InSkip(f.path)
    /\ \A p \in BagToSet(visits) \cup BagToSet(walkReads) \cup BagToSet(counted) : ~InSkip(p)
    /\ \A d \in BagToSet(detRuns) : ~InSkip(d[1])
    /\ \A e \in BagToSet(emitted) : ~InSkip(e.from)
    /\ \A p \in BagToSet(osReads) :
          InSkip(p) => /\ ~InSkip(Parent(p))
                       /\ \E d \in BagToSet(detRuns) : d[1] = Parent(p)

\* C8 witness: the traversal is over and a detector has listed a target
\* directory that holds a project of its own.
C8_TargetListedByDetector ==
    /\ Quiescent
    /\ \E p \in BagToSet(osReads) :
          /\ InSkip(p)
          /\ \E n \in fs : Parent(Parent(n.path)) = p /\ n.path[Len(n.path)] = "Cargo.toml"

\* C9: walkDir is never called, nor scheduled, on a path with a component
\* that os.Lstat reports as a symbolic link or fails on.
C9_NoVisitThroughSymlink ==
    \A p \in BagToSet(visits) \cup { f.path : f \in Frames } :
        \A k \in 1..Len(p) : Lstat(fs, SubSeq(p, 1, k)) = "dir"

\* C9 witness: the traversal is over and the child loop has passed a
\* symbolic link listed as a directory and an entry os.Lstat failed on.
C9_LinkAndLstatFailurePassed ==
    /\ Quiescent
    /\ \E n \in fs : /\ n.isDir /\ n.lmode = "symlink"
                     /\ Parent(n.path) \in BagToSet(counted)
    /\ \E n \in fs : /\ n.isDir /\ n.lmode = "err"
                     /\ Parent(n.path) \in BagToSet(counted)

\* C10 as stated: no directory at or beyond the depth limit is listed, and no
\* record comes from one.
C10_NoReadAtLimit ==
    /\ \A p \in BagToSet(osReads) : Len(p) < maxRecursionDepth
    /\ \A e \in BagToSet(emitted) : Len(e.from) < maxRecursionDepth

\* C10 amended: a walkDir call at or beyond the limit only returns: walkDir
\* lists no such directory, runs no detector on it, sends no record from it,
\* schedules no child and does not count it; a directory at or beyond the
\* limit is listed only by a detector run on a directory below the limit.
C10_NoWalkAtLimit ==
    /\ \A f \in Frames :
          /\ f.depth = Len(f.path) /\ f.depth <= maxRecursionDepth
          /\ f.depth >= maxRecursionDepth => f.pc \in {"enter", "done"} /\ f.rpc = "none"
    /\ \A p \in BagToSet(visits) : Len(p) <= maxRecursionDepth
    /\ \A p \in BagToSet(walkReads) \cup BagToSet(counted) : Len(p) < maxRecursionDepth
    /\ \A d \in BagToSet(detRuns) : Len(d[1]) < maxRecursionDepth
    /\ \A e \in BagToSet(emitted) : Len(e.from) < maxRecursionDepth
    /\ \A p \in BagToSet(osReads) :
          Len(p) >= maxRecursionDepth =>
              \E d \in BagToSet(detRuns) :
                  /\ Len(d[1]) < maxRecursionDepth
                  /\ SubSeq(p, 1, Len(d[1])) = d[1]

\* C10 witness: the traversal is over, a walkDir call at the limit has
\* returned and a detector has listed a directory at the limit.
C10_CutOffAtLimit ==
    /\ Quiescent
    /\ \E p \in BagToSet(visits) : Len(p) = maxRecursionDepth
    /\ \E p \in BagToSet(osReads) : Len(p) >= maxRecursionDepth

\* The directories walkDir has obtained the listing of, from os.ReadDir or
\* from the cache: the ones its detectors are run on.
Listed ==
    { p \in BagToSet(visits) :
        /\ Len(p) < maxRecursionDepth /\ ~ReadDir(fs, p).err
        /\ \A f \in Frames : f.path = p => f.pc \notin {"enter", "walk.read"} }

\* Directory p exists, may be listed and holds at least one entry.
HasEntries(p) ==
    /\ Exists(fs, p) /\ ~Node(fs, p).readErr
    /\ \E n \in fs : Len(n.path) = Len(p) + 1 /\ Parent(n.path) = p

HasMarker(D, typ) == \E m \in Manifests(typ) : Exists(fs, Join(D, m))

\* The artifact directory of type typ that directory D holds: the first of the
\* detector's candidates that has entries, if D holds the manifest at all.
Artifact(D, typ) ==
    LET cs == Candidates(typ)
        ok == { k \in 1..Len(cs) : HasEntries(Join(D, cs[k])) }
    IN IF HasMarker(D, typ) /\ ok # {}
       THEN { Join(D, cs[CHOOSE k \in ok : \A j \in ok : k <= j]) }
       ELSE {}

FoundFrom(D, typ) == { k \in 1..Len(found) : found[k].typ = typ /\ Parent(found[k].path) = D }

EmittedTypes(D) == { e.typ : e \in { x \in BagToSet(emitted) : x.from = D } }
MatchedTypes(D) == { typ \in detectors : Artifact(D, typ) # {} }

\* The walkDir calls that are past their detector loop.
PastDetectors == { f \in Frames : f.path \in Listed
                                  /\ f.pc \in {"children", "select", "count", "done"} }

\* C12: the types of the records sent for a directory are types of detectors
\* that match on it, and once the detector loop of its walkDir call is over
\* they are exactly the matching detectors: each of them has sent its record,
\* whichever matched first.
C12_EveryMatchingDetectorEmits ==
    /\ \A D \in Listed : EmittedTypes(D) \subseteq MatchedTypes(D)
    /\ \A f \in PastDetectors : EmittedTypes(f.path) = MatchedTypes(f.path)
    /\ \A D \in BagToSet(counted) : EmittedTypes(D) = MatchedTypes(D)

\* C12 witness: package.json with filled node_modules and .next gave a node
\* record and a next record for the one directory, and main holds both.
C12_NodeAndNextForOneDirectory ==
    /\ fs = TreeNext /\ mainPc # "range"
    /\ MatchedTypes(<<>>) = {"node", "next"}
    /\ EmittedTypes(<<>>) = {"node", "next"}
    /\ { found[k].typ : k \in FoundFrom(<<>>, "node") \cup FoundFrom(<<>>, "next") }
          = {"node", "next"}

\* The directories whose listing by walkDir failed.
FailedWalks == { p \in BagToSet(walkReads) : ReadDir(fs, p).err }

\* The paths walkDir has been scheduled on or entered with.
Scheduled == BagToSet(visits) \cup { f.path : f \in Frames }

\* C13: a walkDir call whose listing failed has run no detector, sent no
\* record, scheduled no child and not counted its directory, and is at its
\* return; and when the stream has ended no call is left and every directory
\* that can be reached and listed has been walked to the end and counted.
C13_FailedReadIsLocal ==
    /\ \A p \in FailedWalks :
          /\ EmittedTypes(p) = {}
          /\ \A d \in BagToSet(detRuns) : d[1] # p
          /\ CopiesIn(p, counted) = 0
          /\ \A q \in Scheduled : q # <<>> => Parent(q) # p
          /\ \A f \in Frames : f.path = p => f.pc = "done"
    /\ mainPc # "range" =>
          /\ Quiescent
          /\ \A n \in fs : Claimed(n.path) => CopiesIn(n.path, counted) = 1

\* C13 witness: the listing of one directory failed, its sibling was walked
\* to the end and counted, and the stream has ended.
C13_SiblingOfFailedReadCounted ==
    /\ mainPc # "range"
    /\ \E p \in FailedWalks : \E q \in BagToSet(counted) :
          /\ p # <<>> /\ q # <<>> /\ q # p /\ Parent(q) = Parent(p)
          /\ CopiesIn(Parent(p), counted) = 1

\* The directories whose walkDir call has left its child loop and counted.
LoopOver == { p \in Listed : \A f \in Frames : f.path = p => f.pc = "done" }

\* The children walkDir schedules for a listed directory.
ChildrenOf(p) ==
    LET es == ReadDir(fs, p).entries
    IN { Join(p, es[k].name) : k \in { j \in 1..Len(es) : ~SkipChild(fs, p, es[j]) } }

C14_CounterInv ==
    /\ dirCount = Cardinality(LoopOver)
    /\ \A p \in BagToSet(counted) :
          CopiesIn(p, counted) = 1 /\ p \in LoopOver /\ ChildrenOf(p) \subseteq Scheduled
    /\ mainPc # "range" => dirCount = Cardinality(Listed) /\ LoopOver = Listed
    /\ mainPc \in {"delete", "exit"} => totalDirs = dirCount

\* C14: dirCount never decreases and grows by one at a time; it equals the
\* number of listed directories whose walkDir call has left its child loop,
\* each counted once and only with all its children scheduled; and from the
\* moment main leaves the range loop it no longer changes and is the number
\* of directories walkDir listed, which is what main reads into totalDirs.
C14_CounterExact ==
    /\ []C14_CounterInv
    /\ [][/\ dirCount' \in {dirCount, dirCount + 1}
          /\ mainPc # "range" => dirCount' = dirCount]_vars

\* C14 witness: main has read a counter of three after a traversal in which
\* walkDir was called on more than three directories.
C14_FinalCountRead ==
    /\ mainPc \in {"delete", "exit"} /\ totalDirs = 3 /\ dirCount = 3
    /\ Cardinality(BagToSet(visits)) > 3

\* The stream has ended: closed by the closer, drained, and no walkDir call
\* is left to send on it.
StreamOver ==
    /\ resultsClosed /\ closerPc = "done" /\ results = <<>>
    /\ Quiescent /\ wg = 0
    /\ Len(found) = BagCardinality(emitted)

\* C15: no step of the traversal (a step of a walkDir goroutine, of the
\* closer or of the range loop) removes anything, and a removal is a step of
\* main's deletion loop taken when the stream is closed, drained and every
\* record is in found; once an item has been offered or removed no walkDir
\* call runs any more.
C15_DeletionAfterStream ==
    /\ [](removed # {} \/ outcomes # <<>> => StreamOver /\ mainPc \in {"delete", "exit"})
    /\ [][/\ removed' # removed => mainPc = "delete" /\ StreamOver
          /\ (gor' # gor \/ closerPc' # closerPc \/ mainPc = "range") => removed' = removed]_vars

\* C15 witness: after a traversal that sent two records main has removed a
\* found directory.
C15_RemovedAfterTraversal ==
    /\ removed # {} /\ removed \subseteq { found[k].path : k \in 1..Len(found) }
    /\ BagCardinality(emitted) >= 2 /\ StreamOver

\* The items of the deletion loop so far with outcome o.
ItemsWith(o) == { k \in 1..Len(outcomes) : outcomes[k].out = o }

\* C18: the deletion loop offers the records of found in the order received,
\* each once; deleted is the number of items confirmed and removed without
\* error, and what has been removed are the paths of those items; a failed
\* removal changes nothing else, and when main returns every record has been
\* offered, whatever failed before it.
C18_DeletionLoopExact ==
    /\ Len(outcomes) <= Len(found)
    /\ \A k \in 1..Len(outcomes) : outcomes[k].rec = found[k]
    /\ mainPc = "delete" => delIdx = Len(outcomes) + 1
    /\ deleted = Cardinality(ItemsWith("ok"))
    /\ removed = { found[k].path : k \in ItemsWith("ok") }
    /\ mainPc = "exit" => Len(outcomes) = Len(found)

\* C18 witness: a removal failed, a later item was removed, and main has
\* returned with one deletion counted.
C18_FailureThenRemoval ==
    /\ mainPc = "exit" /\ deleted = 1
    /\ \E j \in ItemsWith("err") : \E k \in ItemsWith("ok") : j < k

\* A step of goroutine g inside walkDir.
WalkStep(g) ==
    \/ WalkEnter(g) \/ RdcLoad(g) \/ RdcRead(g) \/ RdcStore(g)
    \/ \E typ \in detectors : DetectorRun(g, typ)
    \/ Emit(g) \/ WgAdd(g) \/ Spawn(g) \/ Inline(g) \/ Count(g) \/ WalkReturn(g)

\* C16: at the select of main.go:547 the walkDir call can always go on: with
\* a free slot by starting a goroutine for the child, and only so; without
\* one by calling walkDir itself, and only so.  The visits that run on top of
\* their caller are the ones taken inline.  A walkDir call that cannot take
\* a step is at the send of main.go:521 with the channel open and full.
C16_NeverWaitsForSlot ==
    \A g \in GoIds :
        /\ \A k \in 1..Len(gor[g].stack) : (k > 1) <=> (gor[g].stack[k].path \in inlined)
        /\ Running(g) =>
              /\ Top(g).pc = "select" /\ SemTrySend =>
                    ENABLED Spawn(g) /\ ~ENABLED Inline(g)
              /\ Top(g).pc = "select" /\ ~SemTrySend =>
                    ENABLED Inline(g) /\ ~ENABLED Spawn(g)
              /\ ~ENABLED WalkStep(g) =>
                    /\ Top(g).pc = "emit"
                    /\ ~resultsClosed /\ resultsCap > 0 /\ Len(results) = resultsCap

\* C16 witness: one walkDir call has a visit running inline on top of it
\* with the pool full, while another waits at its send on the full channel.
C16_InlineAndBlockedSend ==
    /\ concurrencyLimit > 0 /\ sem = concurrencyLimit
    /\ \E g \in GoIds : Len(gor[g].stack) > 1
    /\ \E g \in GoIds : Running(g) /\ Top(g).pc = "emit" /\ ~ENABLED WalkStep(g)

\* The directories above p, the start directory included.
Ancestors(p) == { SubSeq(p, 1, k) : k \in 0..(Len(p) - 1) }

\* C17: when walkDir has been scheduled on a directory, or a child is being
\* scheduled at main.go:545-557, every detector has been run on each
\* directory above it and every record of those directories has been sent;
\* a walkDir call that is still in its detector loop has no descendant
\* scheduled.
C17_EmissionsBeforeChildren ==
    /\ \A q \in Scheduled : \A D \in Ancestors(q) :
          /\ \A typ \in detectors : CopiesIn(<<D, typ>>, detRuns) = 1
          /\ EmittedTypes(D) = MatchedTypes(D)
    /\ \A f \in Frames :
          /\ f.pc \in {"children", "select"} =>
                /\ f.todo = {}
                /\ EmittedTypes(f.path) = MatchedTypes(f.path)
          /\ f.pc \in {"enter", "walk.read", "detect", "det.read", "emit"} =>
                \A q \in Scheduled : f.path \notin Ancestors(q)

\* C17 witness: a directory with two records has a child on which walkDir
\* has been entered, and both records were sent before.
C17_ChildAfterTwoRecords ==
    \E q \in BagToSet(visits) :
        /\ q # <<>> /\ Cardinality(MatchedTypes(Parent(q))) = 2
        /\ EmittedTypes(Parent(q)) = MatchedTypes(Parent(q))
        /\ \E f \in Frames : f.path = q /\ f.pc = "walk.read"

\* The goroutines started at main.go:549 that have not received from sem.
Holders == { g \in GoIds \ {0} : gor[g].st \in {"running", "release"} }

\* C19: the tokens in sem are the goroutines started at main.go:549 that have
\* not yet run their receive, one each, and never more than the capacity; a
\* goroutine reaches its receive with its walkDir call returned (wg.Done run)
\* and the receive finds a token; the root goroutine holds none; with no
\* spawned goroutine left sem is empty.
C19_SlotAccounting ==
    /\ sem = Cardinality(Holders)
    /\ sem <= concurrencyLimit
    /\ gor[0].st \in {"running", "exited"}
    /\ \A g \in GoIds \ {0} :
          /\ gor[g].st \in {"unused", "running", "release"}
          /\ gor[g].st = "running" => gor[g].stack # <<>>
          /\ gor[g].st = "release" => gor[g].stack = <<>> /\ ENABLED Release(g)
          /\ gor[g].st = "unused" => ~ENABLED Release(g)
    /\ Holders = {} => sem = 0

\* C19 witness: the pool is full with two goroutines, one of which has
\* returned from walkDir and is about to give its slot back.
C19_FullPoolOneReleasing ==
    /\ concurrencyLimit = 2 /\ sem = 2
    /\ \E g \in Holders : gor[g].st = "release"
    /\ \E g \in Holders : gor[g].st = "running"

\* The walkDir calls that have not returned, and the calls registered at
\* main.go:545 whose goroutine or inline call has not started yet.
OpenCalls == { <<g, k>> \in GoIds \X (1..(MaxDepth + 2)) : k <= Len(gor[g].stack) }
Registered == { g \in GoIds : Running(g) /\ Top(g).pc = "select" }

C20_WaitGroupInv ==
    /\ wg >= Cardinality(OpenCalls)
    /\ wg = Cardinality(OpenCalls) + Cardinality(Registered)
    /\ wg = 0 => Quiescent
    /\ closerPc # "wait" => wg = 0 /\ Quiescent
    /\ resultsClosed => wg = 0 /\ Quiescent

\* C20: the WaitGroup counter is the number of walkDir calls that have not
\* returned plus the children registered and not yet started, so it is never
\* below the number of calls scheduled and not returned; it is zero only
\* with no call running or pending, stays zero from then on, and the closer
\* passes wg.Wait and closes results only then.
C20_WaitGroupCoversWalkers ==
    /\ []C20_WaitGroupInv
    /\ [][/\ wg = 0 => wg' = 0
          /\ closerPc' # closerPc => wg = 0 /\ Quiescent]_vars

\* C20 witness: the counter is back at zero after four or more walkDir
\* calls, some of them inline, and the closer has closed results.
C20_BackToZero ==
    /\ wg = 0 /\ resultsClosed /\ closerPc = "done"
    /\ Cardinality(BagToSet(visits)) >= 4 /\ inlined # {}
====
